---- MODULE Spec2Model ----
(***************************************************************************)
(* A model of arrow/src/array/array_decimal.rs: DecimalArray, a typed view *)
(* over ArrayData whose elements are 16-byte little-endian two's           *)
(* complement integers sharing one (precision, scale) pair.                *)
(*                                                                         *)
(* An i128 is a record [neg, mag]: its sign and its magnitude as a         *)
(* little-endian sequence of base-256 digits without high zero digits      *)
(* (zero is [neg |-> FALSE, mag |-> <<>>]).  Bytes in a buffer are numbers  *)
(* in 0..255.  The numbers TLC computes with stay below 2^31.              *)
(***************************************************************************)
EXTENDS Integers, Sequences, FiniteSets, TLC

VARIABLES
    array,    \* the DecimalArray under study, or NoArray before construction
    source,   \* the argument the array was constructed from
    last,     \* the last operation: its arguments and what it returned
    cursors,  \* the live DecimalIter cursors over the array, by name
    build     \* the build of the crate: with overflow checks or without

vars == <<array, source, last, cursors, build>>

----------------------------------------------------------------------------
(* Bounds of the model. *)

\* the longest sequence collected into an array, and the longest list
MaxLen == 2
\* calls of next made on a cursor after it is exhausted
MaxExtraNext == 2

----------------------------------------------------------------------------
(* Program constants. *)

VALUE_LENGTH == 16
DECIMAL_MAX_PRECISION == 38
DECIMAL_MAX_SCALE == 38
DECIMAL_DEFAULT_SCALE == 10
\* i32::MAX
MaxI32 == 2147483647

----------------------------------------------------------------------------
(* 128-bit integers. *)

RECURSIVE Norm(_)
\* a magnitude without its high zero digits
Norm(m) ==
    IF m = <<>> THEN <<>>
    ELSE IF m[Len(m)] = 0 THEN Norm(SubSeq(m, 1, Len(m) - 1))
    ELSE m

RECURSIVE MagOfNat(_)
\* the magnitude of a natural number below 2^31
MagOfNat(n) == IF n = 0 THEN <<>> ELSE <<n % 256>> \o MagOfNat(n \div 256)

\* the i128 of an integer TLC can hold
I128(n) == IF n < 0 THEN [neg |-> TRUE, mag |-> MagOfNat(-n)]
           ELSE [neg |-> FALSE, mag |-> MagOfNat(n)]

RECURSIVE MulCarry(_, _, _)
\* m * k + carry, for a small k
MulCarry(m, k, carry) ==
    IF m = <<>> THEN MagOfNat(carry)
    ELSE LET t == m[1] * k + carry
         IN  <<t % 256>> \o MulCarry(Tail(m), k, t \div 256)

RECURSIVE Pow10(_)
\* the magnitude of 10^p
Pow10(p) == IF p = 0 THEN <<1>> ELSE MulCarry(Pow10(p - 1), 10, 0)

RECURSIVE SubOne(_)
\* m - 1, for m > 0
SubOne(m) ==
    IF m[1] > 0 THEN <<m[1] - 1>> \o Tail(m)
    ELSE <<255>> \o SubOne(Tail(m))

RECURSIVE CmpTop(_, _, _)
\* compares two magnitudes of the same length from digit k down: -1, 0 or 1
CmpTop(a, b, k) ==
    IF k = 0 THEN 0
    ELSE IF a[k] < b[k] THEN -1
    ELSE IF a[k] > b[k] THEN 1
    ELSE CmpTop(a, b, k - 1)

\* compares two normalised magnitudes: -1, 0 or 1
CmpMag(a, b) ==
    IF Len(a) < Len(b) THEN -1
    ELSE IF Len(a) > Len(b) THEN 1
    ELSE CmpTop(a, b, Len(a))

\* a < b on i128 values
I128Less(a, b) ==
    IF a.neg /\ ~b.neg THEN TRUE
    ELSE IF ~a.neg /\ b.neg THEN FALSE
    ELSE IF a.neg THEN CmpMag(a.mag, b.mag) = 1
    ELSE CmpMag(a.mag, b.mag) = -1

\* -a
I128Neg(a) == IF a.mag = <<>> THEN a ELSE [neg |-> ~a.neg, mag |-> a.mag]

RECURSIVE PadTo(_, _)
\* m with high zero digits up to n digits
PadTo(m, n) == IF Len(m) >= n THEN m ELSE PadTo(Append(m, 0), n)

RECURSIVE IncBytes(_)
\* b + 1 modulo 256^Len(b)
IncBytes(b) ==
    IF b = <<>> THEN <<>>
    ELSE IF b[1] < 255 THEN <<b[1] + 1>> \o Tail(b)
    ELSE <<0>> \o IncBytes(Tail(b))

\* the two's complement of 16 bytes: every bit inverted, plus one
TwosComplement(b) == IncBytes([k \in 1..Len(b) |-> 255 - b[k]])

\* i128::to_le_bytes
to_le_bytes(v) ==
    IF v.neg THEN TwosComplement(PadTo(v.mag, VALUE_LENGTH))
    ELSE PadTo(v.mag, VALUE_LENGTH)

\* i128::from_le_bytes
from_le_bytes(b) ==
    IF b[VALUE_LENGTH] >= 128
    THEN [neg |-> TRUE, mag |-> Norm(TwosComplement(b))]
    ELSE [neg |-> FALSE, mag |-> Norm(b)]

\* i128::MIN, -2^127
I128Min == [neg |-> TRUE, mag |-> [k \in 1..VALUE_LENGTH |-> IF k = VALUE_LENGTH THEN 128 ELSE 0]]

----------------------------------------------------------------------------
(* Option, Result, Buffer, validity bitmap, ArrayData. *)

None == [some |-> FALSE]
Some(x) == [some |-> TRUE, val |-> x]

Ok(x) == [kind |-> "ok", val |-> x]
Err(e) == [kind |-> "err", err |-> e]
Panic(msg) == [kind |-> "panic", msg |-> msg]
\* a read outside the allocation behind a raw pointer
UndefinedBehaviour == [kind |-> "ub"]

\* the builds of the crate: "debug" checks arithmetic for overflow, "release" wraps
Builds == {"debug", "release"}

RECURSIVE Flatten(_)
\* the concatenation of a sequence of sequences
Flatten(ss) == IF ss = <<>> THEN <<>> ELSE Head(ss) \o Flatten(Tail(ss))

\* a Buffer: a window, from byte `off` on, of a shared immutable allocation
NewBuffer(alloc, bytes) == [alloc |-> alloc, off |-> 0, bytes |-> bytes]

\* Buffer::len
BufferLen(buf) == Len(buf.bytes) - buf.off

\* Buffer::slice: the same allocation, seen from `offset` bytes further on
BufferSlice(buf, offset) == [buf EXCEPT !.off = buf.off + offset]

\* Buffer::as_ptr
BufferAsPtr(buf) == [alloc |-> buf.alloc, off |-> buf.off]

\* collecting an iterator of i128 into a Buffer: 16 bytes each
CollectI128(alloc, vals) ==
    NewBuffer(alloc, Flatten([k \in 1..Len(vals) |-> to_le_bytes(vals[k])]))

RECURSIVE Pow2(_)
Pow2(n) == IF n = 0 THEN 1 ELSE 2 * Pow2(n - 1)

RECURSIVE PackByte(_, _, _)
\* the byte holding bits[from + 1 .. from + 8], least significant bit first
PackByte(bits, from, j) ==
    IF j = 8 \/ from + j + 1 > Len(bits) THEN 0
    ELSE (IF bits[from + j + 1] THEN Pow2(j) ELSE 0) + PackByte(bits, from, j + 1)

\* BooleanBufferBuilder turned into a Buffer: the appended bits, packed
PackBits(alloc, bits) ==
    NewBuffer(alloc, [k \in 1..((Len(bits) + 7) \div 8) |-> PackByte(bits, 8 * (k - 1), 0)])

\* bit_util::get_bit on a validity buffer
GetBit(buf, i) == (buf.bytes[buf.off + (i \div 8) + 1] \div Pow2(i % 8)) % 2 = 1

Decimal(precision, scale) == [id |-> "Decimal", precision |-> precision, scale |-> scale]
UInt8 == [id |-> "UInt8"]
Int32 == [id |-> "Int32"]
FixedSizeList(width) == [id |-> "FixedSizeList", width |-> width]

\* ArrayData::new_unchecked and the ArrayData builder's build_unchecked
ArrayData(data_type, len, null_bit_buffer, offset, buffers, child_data) ==
    [data_type |-> data_type, len |-> len, null_bitmap |-> null_bit_buffer,
     offset |-> offset, buffers |-> buffers, child_data |-> child_data]

\* ArrayData::with_data_type
with_data_type(data, data_type) == [data EXCEPT !.data_type = data_type]

\* ArrayData::is_null: the validity bit of slot i + offset, when a bitmap is there
is_null(data, i) ==
    /\ data.null_bitmap.some
    /\ ~GetBit(data.null_bitmap.val, i + data.offset)

----------------------------------------------------------------------------
(* DecimalArray: element access. *)

NoArray == [kind |-> "none"]

\* usize as i32: the low 32 bits, as a signed number
AsI32(x) == IF x <= MaxI32 THEN x ELSE ((x - MaxI32) - 1) - MaxI32 - 1

\* whether 16 * x leaves the range of i32
MulOverflows(x) == x > MaxI32 \div VALUE_LENGTH \/ x < -(MaxI32 \div VALUE_LENGTH) - 1

\* 16 * x modulo 2^32, as a signed number
WrappingMul16(x) ==
    LET low == x % 134217728
        bit == (x \div 134217728) % 2
    IN  IF bit = 1 THEN ((VALUE_LENGTH * low) - MaxI32) - 1 ELSE VALUE_LENGTH * low

\* DecimalArray::value_offset_at: VALUE_LENGTH * i as i32. An overflowing
\* multiplication panics in a build with overflow checks and wraps in one without.
value_offset_at(i) ==
    IF MulOverflows(AsI32(i)) /\ build = "debug"
    THEN Panic("attempt to multiply with overflow")
    ELSE Ok(WrappingMul16(AsI32(i)))

\* DecimalArray::value_offset
value_offset(self, i) == value_offset_at(self.data.offset + i)

\* DecimalArray::value_length
value_length(self) == VALUE_LENGTH

\* std::slice::from_raw_parts(ptr.offset(pos), VALUE_LENGTH) on the allocation
\* the array's buffer lives in
ReadWindow(self, pos) ==
    LET bytes == self.data.buffers[1].bytes
        from  == self.value_data.off + pos
    IN  IF from < 0 \/ from + VALUE_LENGTH > Len(bytes) THEN UndefinedBehaviour
        ELSE Ok(SubSeq(bytes, from + 1, from + VALUE_LENGTH))

\* Decimal128::new_from_i128
Decimal128(precision, scale, v) == [precision |-> precision, scale |-> scale, value |-> v]

\* DecimalArray::value
value(self, i) ==
    IF ~(i < self.data.len) THEN Panic("DecimalArray out of bounds access")
    ELSE LET pos == value_offset_at(i + self.data.offset)
         IN  IF pos.kind # "ok" THEN pos
             ELSE LET raw_val == ReadWindow(self, pos.val)
                  IN  IF raw_val.kind # "ok" THEN raw_val
                      ELSE Ok(Decimal128(self.precision, self.scale,
                                         from_le_bytes(raw_val.val)))

\* DecimalArray::value_data
value_data(self) == self.data.buffers[1]

\* DecimalArray::precision, DecimalArray::scale
precision(self) == self.precision
scale(self) == self.scale

----------------------------------------------------------------------------
(* DecimalIter, the sequence cursor, and the precision validator. *)

\* DecimalIter::new
DecimalIterNew(self) == [current |-> 0, current_end |-> self.data.len]

\* DecimalIter::next: the end of the sequence, or the slot at `current` (None for
\* a null slot, else its raw value) and the cursor moved one slot on
DecimalIterNext(self, it) ==
    IF it.current = it.current_end THEN [kind |-> "ok", item |-> None, iter |-> it]
    ELSE LET old  == it.current
             next == [it EXCEPT !.current = old + 1]
         IN  IF is_null(self.data, old)
             THEN [kind |-> "ok", item |-> Some(None), iter |-> next]
             ELSE LET v == value(self, old)
                  IN  IF v.kind = "ok"
                      THEN [kind |-> "ok", item |-> Some(Some(v.val.value)), iter |-> next]
                      ELSE [kind |-> v.kind, item |-> None, iter |-> next]

\* a variant of DecimalIterSizeHint that reports the whole length
DecimalIterSizeHint_whole(it) == <<it.current_end, Some(it.current_end)>>

\* DecimalIter::size_hint
DecimalIterSizeHint(it) ==
    <<it.current_end - it.current, Some(it.current_end - it.current)>>

\* DecimalArray::iter and IntoIterator for &DecimalArray
iter(self) == DecimalIterNew(self)

\* the largest precision the table below is computed for
TablePrecisions == 0..(DECIMAL_MAX_PRECISION + 4)

\* 10^p - 1 for each precision
MaxDecimalTable == [p \in TablePrecisions |-> [neg |-> FALSE, mag |-> Norm(SubOne(Pow10(p)))]]

\* the largest value a decimal of precision p holds: 10^p - 1
MaxDecimalFor(p) ==
    IF p \in TablePrecisions THEN MaxDecimalTable[p]
    ELSE [neg |-> FALSE, mag |-> Norm(SubOne(Pow10(p)))]

\* validate_decimal_precision: the value, or the bound it violates
validate_decimal_precision(v, p) ==
    LET max == MaxDecimalFor(p)
        min == I128Neg(max)
    IN  IF I128Less(max, v)
        THEN Err([error |-> "too large", value |-> v, precision |-> p, bound |-> max])
        ELSE IF I128Less(v, min)
        THEN Err([error |-> "too small", value |-> v, precision |-> p, bound |-> min])
        ELSE Ok(v)

----------------------------------------------------------------------------
(* DecimalArray: construction. *)

\* DecimalArray::default_type
default_type == Decimal(DECIMAL_MAX_PRECISION, DECIMAL_DEFAULT_SCALE)

\* impl From<ArrayData> for DecimalArray
FromArrayData(data) ==
    IF Len(data.buffers) # 1
    THEN Panic("DecimalArray data should contain 1 buffer only (values)")
    ELSE IF data.data_type.id # "Decimal"
    THEN Panic("Expected data type to be Decimal")
    ELSE Ok([kind       |-> "array",
             data       |-> data,
             value_data |-> BufferAsPtr(data.buffers[1]),
             precision  |-> data.data_type.precision,
             scale      |-> data.data_type.scale])

\* DecimalArray::from_iter_values
from_iter_values(vals) ==
    LET val_buf == CollectI128("collected", vals)
    IN  FromArrayData(ArrayData(default_type, BufferLen(val_buf) \div VALUE_LENGTH,
                                None, 0, <<val_buf>>, <<>>))

\* a variant of from_iter_item that marks every slot valid
from_iter_item_always_valid(item) ==
    IF item.some THEN [valid |-> TRUE, stored |-> item.val]
    ELSE [valid |-> TRUE, stored |-> I128(0)]

\* what FromIterator stores for one item: its validity bit and its 16-byte value
from_iter_item(item) ==
    IF item.some THEN [valid |-> TRUE, stored |-> item.val]
    ELSE [valid |-> FALSE, stored |-> I128(0)]

\* impl FromIterator<Option<i128>> for DecimalArray
from_iter(items) ==
    LET mapped   == [k \in 1..Len(items) |-> from_iter_item(items[k])]
        null_buf == [k \in 1..Len(items) |-> mapped[k].valid]
        buffer   == CollectI128("collected", [k \in 1..Len(items) |-> mapped[k].stored])
    IN  FromArrayData(ArrayData(default_type, Len(null_buf),
                                Some(PackBits("validity", null_buf)), 0, <<buffer>>, <<>>))

\* a variant of list_value_buffer that leaves the child's offset out
list_value_buffer_unsliced(child_data) == child_data.buffers[1]

\* the buffer from_fixed_size_list_array hands to the decimal array
list_value_buffer(child_data) == BufferSlice(child_data.buffers[1], child_data.offset)

\* the logical offset from_fixed_size_list_array gives the decimal array
list_value_offset(v) == v.data.offset

\* DecimalArray::from_fixed_size_list_array
from_fixed_size_list_array(v, p, s) ==
    LET child_data == v.data.child_data[1]
    IN  IF Len(child_data.child_data) # 0
        THEN Panic("DecimalArray can only be created from list array of u8 values")
        ELSE IF child_data.data_type # UInt8
        THEN Panic("DecimalArray can only be created from FixedSizeList<u8> arrays")
        ELSE FromArrayData(ArrayData(Decimal(p, s), v.data.len, v.data.null_bitmap,
                                     list_value_offset(v),
                                     <<list_value_buffer(child_data)>>, <<>>))

----------------------------------------------------------------------------
(* DecimalArray::with_precision_and_scale. *)

\* a variant of check_arguments that checks the scale against its maximum first
check_arguments_scale_first(p, s) ==
    IF s > DECIMAL_MAX_SCALE
    THEN Some([error |-> "scale is greater than max", scale |-> s,
               max |-> DECIMAL_MAX_SCALE])
    ELSE IF p > DECIMAL_MAX_PRECISION
    THEN Some([error |-> "precision is greater than max", precision |-> p,
               max |-> DECIMAL_MAX_PRECISION])
    ELSE IF s > p
    THEN Some([error |-> "scale is greater than precision", scale |-> s,
               precision |-> p])
    ELSE None

\* the argument checks, in the order of the code: the first error, or None
check_arguments(p, s) ==
    IF p > DECIMAL_MAX_PRECISION
    THEN Some([error |-> "precision is greater than max", precision |-> p,
               max |-> DECIMAL_MAX_PRECISION])
    ELSE IF s > DECIMAL_MAX_SCALE
    THEN Some([error |-> "scale is greater than max", scale |-> s,
               max |-> DECIMAL_MAX_SCALE])
    ELSE IF s > p
    THEN Some([error |-> "scale is greater than precision", scale |-> s,
               precision |-> p])
    ELSE None

\* a variant of must_validate that never validates
must_validate_never(self, p) == FALSE

\* a variant of must_validate that also validates when the precision stays
must_validate_unless_grown(self, p) == p <= self.precision

\* whether the stored values are validated: only when the precision decreases
must_validate(self, p) == p < self.precision

RECURSIVE validate_from(_, _, _, _)
\* for v in self.iter().flatten() { validate_decimal_precision(v, precision)?; }
\* from cursor `it` on: how the loop ends (Ok, the first Err, or the failure of a
\* read) and the values validated
validate_from(self, it, p, scanned) ==
    LET step == DecimalIterNext(self, it)
    IN  IF step.kind # "ok" THEN [end |-> [kind |-> step.kind], scanned |-> scanned]
        ELSE IF ~step.item.some THEN [end |-> Ok(TRUE), scanned |-> scanned]
        ELSE IF ~step.item.val.some THEN validate_from(self, step.iter, p, scanned)
        ELSE LET v     == step.item.val.val
                 check == validate_decimal_precision(v, p)
             IN  IF check.kind = "err"
                 THEN [end |-> check, scanned |-> Append(scanned, v)]
                 ELSE validate_from(self, step.iter, p, Append(scanned, v))

\* the scan of every non-null value against the new precision
validate_values(self, p) == validate_from(self, iter(self), p, <<>>)

\* a variant of retagged that leaves the type tag of the metadata as it was
retagged_fields_only(self, p, s) == [self EXCEPT !.precision = p, !.scale = s]

\* the array with precision, scale and type tag replaced
retagged(self, p, s) ==
    [self EXCEPT !.precision = p, !.scale = s,
                 !.data = with_data_type(self.data, Decimal(p, s))]

\* a variant of with_precision_and_scale that assigns precision and scale before
\* it validates the values
with_precision_and_scale_assign_first(self, p, s) ==
    LET bad == check_arguments(p, s)
    IN  IF bad.some
        THEN [result |-> Err(bad.val), self |-> self, scan |-> FALSE, scanned |-> <<>>]
        ELSE LET scan == IF must_validate(self, p) THEN validate_values(self, p)
                         ELSE [end |-> Ok(TRUE), scanned |-> <<>>]
                 assigned == [self EXCEPT !.precision = p, !.scale = s]
             IN  IF scan.end.kind # "ok"
                 THEN [result |-> scan.end, self |-> assigned,
                       scan |-> TRUE, scanned |-> scan.scanned]
                 ELSE [result |-> Ok(retagged(self, p, s)), self |-> retagged(self, p, s),
                       scan |-> must_validate(self, p), scanned |-> scan.scanned]

\* DecimalArray::with_precision_and_scale: what it returns, the array as the call
\* leaves it, whether the values were scanned and which were validated
with_precision_and_scale(self, p, s) ==
    LET bad == check_arguments(p, s)
    IN  IF bad.some
        THEN [result |-> Err(bad.val), self |-> self, scan |-> FALSE, scanned |-> <<>>]
        ELSE LET scan == IF must_validate(self, p) THEN validate_values(self, p)
                         ELSE [end |-> Ok(TRUE), scanned |-> <<>>]
             IN  IF scan.end.kind # "ok"
                 THEN [result |-> scan.end, self |-> self,
                       scan |-> TRUE, scanned |-> scan.scanned]
                 ELSE IF self.data.data_type # Decimal(self.precision, self.scale)
                 THEN [result |-> Panic("assertion failed: data type"), self |-> self,
                       scan |-> must_validate(self, p), scanned |-> scan.scanned]
                 ELSE [result |-> Ok(retagged(self, p, s)), self |-> retagged(self, p, s),
                       scan |-> must_validate(self, p), scanned |-> scan.scanned]

----------------------------------------------------------------------------
(* The arguments the operations are called with. *)

\* the sequences over S of length at most n
SeqsUpTo(S, n) == UNION {[1..k -> S] : k \in 0..n}

\* 10^38: one more than the largest decimal of the maximal precision
TenTo38 == [neg |-> FALSE, mag |-> Pow10(DECIMAL_MAX_PRECISION)]

\* values collected into arrays: the two sides of the bound of precision 5,
\* a value beyond the bound of precision 38, and i128::MIN
I128Inputs == {I128(99999), I128(-100000), TenTo38, I128Min}

OptionInputs == {None} \cup {Some(v) : v \in I128Inputs}

\* precisions and scales with_precision_and_scale is called with
PrecisionInputs == {0, 5, 38, 40}
ScaleInputs == {0, 10, 40}

\* indices value_offset is called with: small ones, and the ones around 2^27,
\* where 16 * i reaches 2^31
OffsetInputs == {0, 1, 2, 134217727, 134217728, 134217729, 268435456}

\* the values in the child buffer of the lists: 99999, 12, -34, 56, 10^38, ...
ChildValues ==
    [k \in 1..(MaxLen + 3) |->
        CASE k % 5 = 1 -> I128(99999)
          [] k % 5 = 2 -> I128(12)
          [] k % 5 = 3 -> I128(-34)
          [] k % 5 = 4 -> I128(56)
          [] OTHER     -> TenTo38]

ChildBuffer == CollectI128("child", ChildValues)

\* the validity bitmaps of the lists: none, or the bits 1, 0, 1, 0, 1, 0, 0, 0
ListBitmaps == {None, Some(NewBuffer("list validity", <<21>>))}

\* a FixedSizeListArray of 16-byte elements over a child array
ListArray(len, o, bitmap, child) ==
    [data |-> ArrayData(FixedSizeList(VALUE_LENGTH), len, bitmap, o, <<>>, <<child>>)]

\* the UInt8 child array from byte c of the child buffer on
ChildArray(c) == ArrayData(UInt8, BufferLen(ChildBuffer) - c, None, c, <<ChildBuffer>>, <<>>)

\* the offsets of the child array in its buffer, in bytes
ChildOffsets == {0, 1, VALUE_LENGTH}

\* well-formed lists: the child holds the bytes of every element
GoodLists ==
    {ListArray(len, o, bitmap, ChildArray(c)) :
        len \in 0..MaxLen, o \in {0, 1}, bitmap \in ListBitmaps, c \in ChildOffsets}

\* lists whose child is not a flat UInt8 array
BadLists ==
    {ListArray(1, 0, None, [ChildArray(0) EXCEPT !.data_type = Int32]),
     ListArray(1, 0, None, [ChildArray(0) EXCEPT !.child_data = <<ChildArray(0)>>])}

ListInputs == GoodLists \cup BadLists

\* the (precision, scale) the caller of from_fixed_size_list_array gives
ListTypeInputs == {<<38, 0>>, <<40, 41>>}

\* values within the bound of precision 5
InRangeInputs == {I128(99999), I128(-12)}

\* metadata tagged Decimal(5, 2) over in-range values, at every offset
GoodData ==
    UNION {{ArrayData(Decimal(5, 2), Len(vals) - o, None, o,
                      <<CollectI128("data", vals)>>, <<>>) : o \in 0..Len(vals)} :
           vals \in SeqsUpTo(InRangeInputs, MaxLen)}

\* metadata with no value buffer, and metadata of another type
BadData ==
    {ArrayData(Decimal(5, 2), 0, None, 0, <<>>, <<>>),
     ArrayData(Int32, 0, None, 0, <<NewBuffer("data", <<>>)>>, <<>>)}

DataInputs == GoodData \cup BadData

----------------------------------------------------------------------------
(* The state machine. *)

CursorNames == {"first", "second"}

NoCursor == [live |-> FALSE]

NoCursors == [c \in CursorNames |-> NoCursor]

Init ==
    /\ array = NoArray
    /\ source = [path |-> "none"]
    /\ last = [op |-> "none"]
    /\ cursors = NoCursors
    /\ build \in Builds

\* what a constructor leaves: the array it made, or none when it panicked
Made(made) == IF made.kind = "ok" THEN made.val ELSE NoArray

FromIterValues ==
    /\ array = NoArray
    /\ \E vals \in SeqsUpTo(I128Inputs, MaxLen) :
         /\ array' = Made(from_iter_values(vals))
         /\ source' = [path |-> "from_iter_values", vals |-> vals]
         /\ last' = [op |-> "from_iter_values", result |-> from_iter_values(vals)]
    /\ UNCHANGED <<cursors, build>>

FromIter ==
    /\ array = NoArray
    /\ \E items \in SeqsUpTo(OptionInputs, MaxLen) :
         /\ array' = Made(from_iter(items))
         /\ source' = [path |-> "from_iter", items |-> items]
         /\ last' = [op |-> "from_iter", result |-> from_iter(items)]
    /\ UNCHANGED <<cursors, build>>

FromFixedSizeList ==
    /\ array = NoArray
    /\ \E v \in ListInputs, ps \in ListTypeInputs :
         LET made == from_fixed_size_list_array(v, ps[1], ps[2])
         IN  /\ array' = Made(made)
             /\ source' = [path |-> "from_fixed_size_list_array", v |-> v,
                           precision |-> ps[1], scale |-> ps[2]]
             /\ last' = [op |-> "from_fixed_size_list_array", result |-> made]
    /\ UNCHANGED <<cursors, build>>

FromData ==
    /\ array = NoArray
    /\ \E data \in DataInputs :
         /\ array' = Made(FromArrayData(data))
         /\ source' = [path |-> "from", data |-> data]
         /\ last' = [op |-> "from", result |-> FromArrayData(data)]
    /\ UNCHANGED <<cursors, build>>

\* with_precision_and_scale takes the array by value: no cursor borrows it.
\* `array` is afterwards the array as the call left it, also when it failed.
WithPrecisionAndScale ==
    /\ array # NoArray
    /\ cursors = NoCursors
    /\ \E p \in PrecisionInputs, s \in ScaleInputs :
         LET r == with_precision_and_scale(array, p, s)
         IN  /\ array' = r.self
             /\ last' = [op |-> "with_precision_and_scale", precision |-> p, scale |-> s,
                         before |-> array, result |-> r.result,
                         scan |-> r.scan, scanned |-> r.scanned]
    /\ UNCHANGED <<source, cursors, build>>

Value ==
    /\ array # NoArray
    /\ \E i \in 0..(MaxLen + 1) :
         last' = [op |-> "value", i |-> i, result |-> value(array, i)]
    /\ UNCHANGED <<array, source, cursors, build>>

ValueOffset ==
    /\ array # NoArray
    /\ \E i \in OffsetInputs :
         last' = [op |-> "value_offset", i |-> i, result |-> value_offset(array, i)]
    /\ UNCHANGED <<array, source, cursors, build>>

ValueLength ==
    /\ array # NoArray
    /\ last' = [op |-> "value_length", result |-> value_length(array)]
    /\ UNCHANGED <<array, source, cursors, build>>

\* array.iter(): a cursor of its own
NewCursor ==
    /\ array # NoArray
    /\ \E c \in CursorNames :
         /\ ~cursors[c].live
         /\ cursors' = [cursors EXCEPT ![c] =
                           [live |-> TRUE, it |-> iter(array), calls |-> 0,
                            yielded |-> <<>>]]
    /\ UNCHANGED <<array, source, last, build>>

\* one call of next on a live cursor
CursorNext ==
    /\ \E c \in CursorNames :
         /\ cursors[c].live
         /\ cursors[c].calls < array.data.len + MaxExtraNext
         /\ LET step == DecimalIterNext(array, cursors[c].it)
            IN  cursors' = [cursors EXCEPT ![c] =
                              [live |-> TRUE, it |-> step.iter,
                               calls |-> cursors[c].calls + 1,
                               yielded |-> Append(cursors[c].yielded, step.item)]]
    /\ UNCHANGED <<array, source, last, build>>

\* construction, then precision and scale changes
Next ==
    \/ FromIterValues
    \/ FromIter
    \/ FromFixedSizeList
    \/ FromData
    \/ WithPrecisionAndScale

Spec == Init /\ [][Next]_vars

\* construction, then element access
NextAccess ==
    \/ FromIterValues
    \/ FromIter
    \/ FromFixedSizeList
    \/ FromData
    \/ Value
    \/ ValueOffset
    \/ ValueLength

SpecAccess == Init /\ [][NextAccess]_vars

\* construction, then cursors over the array
NextCursor ==
    \/ FromIterValues
    \/ FromIter
    \/ FromFixedSizeList
    \/ NewCursor
    \/ CursorNext

SpecCursor == Init /\ [][NextCursor]_vars

----------------------------------------------------------------------------
(* The claims. *)

\* the last operation was with_precision_and_scale
Called == last.op = "with_precision_and_scale"

\* the arguments of the last call pass the three argument checks
ArgumentsPass == last.precision <= 38 /\ last.scale <= 38 /\ last.scale <= last.precision

\* |v| <= 10^p - 1
Fits(v, p) == CmpMag(v.mag, Norm(SubOne(Pow10(p)))) # 1

\* the value stored in slot i of array a
Stored(a, i) == value(a, i).val.value

\* the non-null slots of array a whose value does not fit precision p
Violating(a, p) ==
    {i \in 0..(a.data.len - 1) : ~is_null(a.data, i) /\ ~Fits(Stored(a, i), p)}

\* the least number of a non-empty set of numbers
Least(S) == CHOOSE i \in S : \A j \in S : i <= j

\* C1: with_precision_and_scale checks precision > 38, then scale > 38, then
\* scale > precision; the first violation decides the error, and no value is
\* scanned unless the three checks have passed.
C1_ArgumentChecksInOrder ==
    Called =>
        /\ last.precision > 38 =>
             last.result = Err([error |-> "precision is greater than max",
                                precision |-> last.precision, max |-> 38])
        /\ last.precision <= 38 /\ last.scale > 38 =>
             last.result = Err([error |-> "scale is greater than max",
                                scale |-> last.scale, max |-> 38])
        /\ last.precision <= 38 /\ last.scale <= 38 /\ last.scale > last.precision =>
             last.result = Err([error |-> "scale is greater than precision",
                                scale |-> last.scale, precision |-> last.precision])
        /\ ~ArgumentsPass => ~last.scan /\ last.scanned = <<>>

\* a call with precision and scale both above 38, on an array that holds values
C1_Witness ==
    /\ Called
    /\ last.precision = 40 /\ last.scale = 40
    /\ last.before.data.len > 0
    /\ last.result.kind = "err"

\* C2: when the argument checks pass, the values are scanned exactly when the new
\* precision is smaller than the current one; the call then succeeds exactly when
\* every non-null value fits the new precision, and else reports the violating
\* non-null value of the lowest index: too large when positive, too small when negative.
C2_ScanOnNarrowing ==
    Called /\ ArgumentsPass =>
        /\ last.scan <=> last.precision < last.before.precision
        /\ last.scan =>
             LET bad == Violating(last.before, last.precision)
                 max == [neg |-> FALSE, mag |-> Norm(SubOne(Pow10(last.precision)))]
             IN  IF bad = {} THEN last.result.kind = "ok"
                 ELSE LET v == Stored(last.before, Least(bad))
                      IN  last.result =
                            Err([error |-> IF v.neg THEN "too small" ELSE "too large",
                                 value |-> v, precision |-> last.precision,
                                 bound |-> IF v.neg THEN I128Neg(max) ELSE max])

\* a narrowing refused for the value of slot 1, slot 0 being null
C2_Witness ==
    /\ Called /\ last.scan
    /\ last.before.data.len > 1
    /\ is_null(last.before.data, 0)
    /\ last.result.kind = "err"
    /\ last.result.err.error = "too small"

\* C3 as stated: a call with a precision not below the current one and a scale not
\* above that precision succeeds without scanning the values.
C3_WideningAlwaysSucceeds ==
    Called /\ last.precision >= last.before.precision /\ last.scale <= last.precision =>
        last.result.kind = "ok" /\ ~last.scan

\* C3, amended: a call with a precision not below the current one and not above
\* 38, and a scale not above that precision, succeeds without scanning the values.
C3_WideningWithinMax ==
    Called /\ last.precision >= last.before.precision /\ last.precision <= 38
           /\ last.scale <= last.precision =>
        last.result.kind = "ok" /\ ~last.scan /\ last.scanned = <<>>

\* a call that raised the precision of an array holding values
C3_Witness ==
    /\ Called
    /\ last.precision > last.before.precision
    /\ last.before.data.len > 0
    /\ last.result.kind = "ok"

\* C4: a failed call leaves the array as it was; a successful one replaces
\* precision, scale and type tag together and nothing else.
C4_FailureLeavesArray ==
    Called =>
        /\ last.result.kind = "err" => array = last.before
        /\ last.result.kind = "ok" =>
             /\ array.precision = last.precision
             /\ array.scale = last.scale
             /\ array.data.data_type = Decimal(last.precision, last.scale)
             /\ array.value_data = last.before.value_data
             /\ [array.data EXCEPT !.data_type = last.before.data.data_type] = last.before.data

\* a call that failed on a value, on an array whose precision and scale had been
\* changed before
C4_Witness ==
    /\ Called /\ last.scan
    /\ last.result.kind = "err"
    /\ last.before.precision # DECIMAL_MAX_PRECISION

\* the smaller of two numbers
Min(a, b) == IF a < b THEN a ELSE b

\* what a cursor yields for slot i of array a
Slot(a, i) == IF is_null(a.data, i) THEN None ELSE Some(Stored(a, i))

\* C5: an array collected from a sequence s of optional values has the length of
\* s; a cursor over it yields the items of s in order, None for None, and then the
\* end of the sequence; value(i) returns s[i] for every non-null position.
C5_RoundTrip ==
    source.path = "from_iter" /\ array # NoArray =>
        LET s == source.items
        IN  /\ array.data.len = Len(s)
            /\ \A i \in 0..(Len(s) - 1) :
                 s[i + 1].some =>
                   value(array, i) =
                     Ok(Decimal128(array.precision, array.scale, s[i + 1].val))
            /\ \A c \in CursorNames :
                 cursors[c].live =>
                   \A k \in 1..Len(cursors[c].yielded) :
                     cursors[c].yielded[k] = IF k <= Len(s) THEN Some(s[k]) ELSE None

\* a cursor run to the end of an array collected from <<None, Some(i128::MIN)>>
C5_Witness ==
    /\ source.path = "from_iter"
    /\ source.items = <<None, Some(I128Min)>>
    /\ cursors["first"].live
    /\ Len(cursors["first"].yielded) = 3

\* C6: after k calls of next a cursor over an array of length n stands at slot
\* min(k, n) and reports min-and-max remaining length n - min(k, n); call j yielded
\* slot j - 1 for j <= n and the end of the sequence for j > n; this holds of each
\* cursor whatever the other one has done.
C6_CursorExactLength ==
    \A c \in CursorNames :
        cursors[c].live =>
            LET n == array.data.len
                k == cursors[c].calls
                y == cursors[c].yielded
            IN  /\ Len(y) = k
                /\ cursors[c].it.current = Min(k, n)
                /\ DecimalIterSizeHint(cursors[c].it) = <<n - Min(k, n), Some(n - Min(k, n))>>
                /\ \A j \in 1..k :
                     y[j] = IF j <= n THEN Some(Slot(array, j - 1)) ELSE None

\* one cursor called once more than the array is long, the other called once
C6_Witness ==
    /\ array # NoArray
    /\ array.data.len = 2
    /\ is_null(array.data, 0)
    /\ cursors["first"].live /\ cursors["first"].calls = 4
    /\ cursors["second"].live /\ cursors["second"].calls = 1

\* whether the child of list v is a flat UInt8 array
FlatUInt8(v) ==
    /\ Len(v.data.child_data[1].child_data) = 0
    /\ v.data.child_data[1].data_type = UInt8

\* C7: the decimal array made from a list with list offset o over a flat UInt8
\* child with offset c has the list's length; value(i) decodes the 16 bytes of the
\* child buffer from byte c + 16 * (o + i); slot i is null exactly when the list
\* has a validity bit o + i that is 0; the buffer is the child's allocation; any
\* other child is a panic.
C7_ListReinterpretation ==
    source.path = "from_fixed_size_list_array" =>
        LET v     == source.v
            child == v.data.child_data[1]
            c     == child.offset
            o     == v.data.offset
            bytes == child.buffers[1].bytes
        IN  IF ~FlatUInt8(v)
            THEN array = NoArray /\ last.result.kind = "panic"
            ELSE /\ array # NoArray
                 /\ array.data.len = v.data.len
                 /\ array.data.buffers[1].alloc = child.buffers[1].alloc
                 /\ array.data.buffers[1].bytes = bytes
                 /\ \A i \in 0..(v.data.len - 1) :
                      LET from == c + 16 * (o + i)
                      IN  /\ value(array, i) =
                               Ok(Decimal128(source.precision, source.scale,
                                             from_le_bytes(SubSeq(bytes, from + 1, from + 16))))
                          /\ from % 16 = 0 =>
                               value(array, i).val.value = ChildValues[(from \div 16) + 1]
                          /\ is_null(array.data, i) <=>
                               (v.data.null_bitmap.some
                                  /\ ~GetBit(v.data.null_bitmap.val, o + i))

\* the list of the repository's test: child offset 16, list offset 1, two
\* elements, the first of them null and the second 56
C7_Witness ==
    /\ source.path = "from_fixed_size_list_array"
    /\ array # NoArray
    /\ source.v.data.child_data[1].offset = 16
    /\ source.v.data.offset = 1
    /\ array.data.len = 2
    /\ is_null(array.data, 0)
    /\ ~is_null(array.data, 1)
    /\ value(array, 1).val.value = I128(56)

\* C8: value_offset(i) returns 16 * (i + offset) for every i (stated through the
\* quotient and the remainder by 16, as the product itself can exceed the
\* integers TLC computes with); value_length() is 16; value(i) for i < length decodes the 16
\* bytes at that byte offset, tagged with precision and scale, and panics for
\* i >= length.
C8_ValueOffsetExact ==
    /\ last.op = "value_offset" =>
         /\ last.result.kind = "ok"
         /\ last.result.val % 16 = 0
         /\ last.result.val \div 16 = last.i + array.data.offset
    /\ last.op = "value_length" => last.result = 16
    /\ last.op = "value" =>
         IF last.i < array.data.len
         THEN LET from == array.value_data.off + 16 * (last.i + array.data.offset)
              IN  last.result =
                    Ok(Decimal128(array.precision, array.scale,
                                  from_le_bytes(SubSeq(array.data.buffers[1].bytes,
                                                       from + 1, from + 16))))
         ELSE last.result.kind = "panic"

\* C9: every non-null stored value fits the precision of its array.
C9_ValuesFitPrecision ==
    array # NoArray => Violating(array, array.precision) = {}

\* C10: an array made by from_iter_values, FromIterator or
\* from_fixed_size_list_array, also after with_precision_and_scale, has
\* 1 <= precision <= 38 and 0 <= scale <= precision.
C10_PrecisionScaleInRange ==
    array # NoArray /\ source.path \in {"from_iter_values", "from_iter",
                                        "from_fixed_size_list_array"} =>
        /\ 1 <= array.precision /\ array.precision <= 38
        /\ 0 <= array.scale /\ array.scale <= array.precision

\* C11: the type tag of the metadata of every array is Decimal(p, s) with
\* p = precision() and s = scale(), after construction by any path and after any
\* sequence of with_precision_and_scale calls, successful or failed; the
\* assertion of with_precision_and_scale on the old tag never fails.
C11_TypeTagAgrees ==
    /\ array # NoArray =>
         array.data.data_type = Decimal(precision(array), scale(array))
    /\ Called =>
         /\ last.result.kind # "panic"
         /\ last.before.data.data_type =
              Decimal(last.before.precision, last.before.scale)

\* a failed call on an array that an earlier call had retagged Decimal(5, 0)
C11_Witness ==
    /\ Called
    /\ last.result.kind = "err"
    /\ last.before.precision = 5 /\ last.before.scale = 0
    /\ array.data.data_type = Decimal(5, 0)
    /\ array.data.len > 0

====
